---- MODULE Spec2Model ----
(***************************************************************************)
(* Model of src/streamlit_app.py, the BEMS dashboard.                      *)
(*                                                                         *)
(* One Streamlit session is modelled.  Every user interaction triggers one *)
(* full run of the script (generate_data cache lookup -> device registry   *)
(* initialisation -> date filter -> the selected view -> footer); each     *)
(* action below is one such run.                                           *)
(*                                                                         *)
(* Time is an integer count of minutes since Nov 1 00:00.  The window is   *)
(* NumDays days long (23 in the source) and an hour has MinutesPerHour     *)
(* minutes (60 in the source); hours keep their real range 0..23.          *)
(* Real numbers are exact rationals [n, d]; the script's floating-point    *)
(* arithmetic agrees with them up to rounding.                             *)
(* np.random is a pseudo-random stream: its state is the variable rng, the *)
(* unknown initial state is chosen in Init.                                *)
(***************************************************************************)
EXTENDS Integers, Sequences, FiniteSets, TLC

(* ----------------------------- bounds ---------------------------------- *)
NumDays == 2
MinutesPerHour == 1
NumSeeds == 2
MaxPick == 2

(* ------------------------- program constants --------------------------- *)
HoursPerDay == 24
OnHour == 8
OffHour == 20
VoltageLow == 220
VoltageHigh == 240
CurrentLow == 5
CurrentHigh == 10
WattsPerKw == 1000
MinutesPerHourEnergy == 60
TakaPerKwh == 5
GramsPerKwh == 500
EndHour == 23

None == "None"

Min(a, b) == IF a < b THEN a ELSE b

(* ------------------------- exact rationals ----------------------------- *)
Rat(n, d) == [n |-> n, d |-> d]
Zero == Rat(0, 1)
RMul(a, b) == Rat(a.n * b.n, a.d * b.d)
RMulInt(a, k) == Rat(a.n * k, a.d)
RDivInt(a, k) == Rat(a.n, a.d * k)
RAdd(a, b) == IF a.d = b.d THEN Rat(a.n + b.n, a.d)
              ELSE Rat(a.n * b.d + b.n * a.d, a.d * b.d)
REq(a, b) == IF a.d = b.d THEN a.n = b.n ELSE a.n * b.d = b.n * a.d

\* f"{x:.2f}": the value in hundredths, rounded to nearest, ties to even.
RoundHalfEven(h, rest, d) ==
    h + (IF 2 * rest > d \/ (2 * rest = d /\ h % 2 = 1) THEN 1 ELSE 0)
Hundredths(q, r, d) == (q * 100) + RoundHalfEven((r * 100) \div d, (r * 100) % d, d)
Fmt2(a) == Hundredths(a.n \div a.d, a.n % a.d, a.d)

(* --------------------------- time axis --------------------------------- *)
MinutesPerDay == HoursPerDay * MinutesPerHour
StartTs == 0
\* Mutant: the window ends at 12:59 of its last day.
EndTs_mut == ((NumDays - 1) * HoursPerDay + 12) * MinutesPerHour + (MinutesPerHour - 1)

EndTs == ((NumDays - 1) * HoursPerDay + EndHour) * MinutesPerHour + (MinutesPerHour - 1)

\* Mutant: the end instant is left out.
dates_mut == [i \in 1..(EndTs - StartTs) |-> StartTs + (i - 1)]

\* pd.date_range(start_date, end_date, freq='T'): every minute, both ends included
dates == [i \in 1..(EndTs - StartTs + 1) |-> StartTs + (i - 1)]

HourOf(ts) == (ts \div MinutesPerHour) % HoursPerDay
\* timestamp.dt.date, as the day of the month
DateOf(ts) == (ts \div MinutesPerDay) + 1

rooms == <<"101", "102", "103", "201", "202", "203", "301", "302", "303">>
floors == <<"1", "1", "1", "2", "2", "2", "3", "3", "3">>

(* ----------------------------- np.random ------------------------------- *)
\* The generator's step, a linear congruential one.
RngNext(x) == (75 * x + 74) % 65537
\* np.random.uniform(lo, hi) on the integer grid of [lo, hi): value and new state
UniformOf(lo, hi, y) == [value |-> lo + (y % (hi - lo)), rng |-> y]
Uniform(lo, hi, x) == UniformOf(lo, hi, RngNext(x))

(* --------------------------- generate_data ----------------------------- *)
\* Mutant: the opening hour itself counts as closed for the current.
InOperatingHours_mut(hour) == hour > OnHour /\ hour < OffHour

InOperatingHours(hour) == hour >= OnHour /\ hour < OffHour

StatusOf(hour) == IF hour < OnHour \/ hour >= OffHour THEN "off" ELSE "on"

\* The fields derived from the two draws, and the appended row.
Reading(date, room, floor, voltage, current, power, energy_kwh) ==
    [timestamp |-> date, room_id |-> room, floor |-> floor,
     voltage |-> voltage, current |-> current, power |-> power,
     energy_kwh |-> energy_kwh,
     bill_taka |-> RMulInt(energy_kwh, TakaPerKwh),
     carbon_gco2 |-> RMulInt(energy_kwh, GramsPerKwh),
     status |-> StatusOf(HourOf(date))]

\* Mutant: the division by the 60 minutes of an hour is forgotten.
EnergyOf_mut(power) == RDivInt(power, WattsPerKw)

EnergyOf(power) == RDivInt(RDivInt(power, WattsPerKw), MinutesPerHourEnergy)

Derive(date, room, floor, voltage, current, power) ==
    Reading(date, room, floor, voltage, current, power, EnergyOf(power))

\* current is drawn in operating hours only; outside them it is 0 and
\* np.random is left alone.
DrawCurrent(hour, x) ==
    IF InOperatingHours(hour) THEN Uniform(CurrentLow, CurrentHigh, x)
    ELSE [value |-> 0, rng |-> x]

RowOfDraws(date, room, floor, v, c) ==
    [row |-> Derive(date, room, floor, Rat(v, 1), Rat(c.value, 1),
                    RMul(Rat(v, 1), Rat(c.value, 1))),
     rng |-> c.rng]

AfterVoltage(date, room, floor, v) ==
    RowOfDraws(date, room, floor, v.value, DrawCurrent(HourOf(date), v.rng))

\* One loop body: the draws, the derived fields and the appended row.
MakeRow(date, room, floor, x) ==
    AfterVoltage(date, room, floor, Uniform(VoltageLow, VoltageHigh, x))

\* Two consecutive stretches of the loops: the rows of both, in order, and the
\* state the second left np.random in.
Join(data, later) == [data |-> data \o later.data, rng |-> later.rng]

AppendRow(r) == [data |-> <<r.row>>, rng |-> r.rng]

\* The inner loop "for date in dates" over dates[lo..hi], in order: the
\* first half, then the second half from the state the first left np.random in.
RECURSIVE GenDates(_, _, _, _, _)
GenDatesAfter(room, floor, lo, hi, left) ==
    Join(left.data, GenDates(room, floor, lo, hi, left.rng))

GenDates(room, floor, lo, hi, x) ==
    IF lo > hi THEN [data |-> <<>>, rng |-> x]
    ELSE IF lo = hi THEN AppendRow(MakeRow(dates[lo], room, floor, x))
    ELSE GenDatesAfter(room, floor, ((lo + hi) \div 2) + 1, hi,
                       GenDates(room, floor, lo, (lo + hi) \div 2, x))

\* The outer loop "for room, floor in zip(rooms, floors)", over the first j pairs.
GenRoomAfter(j, prev) ==
    Join(prev.data, GenDates(rooms[j], floors[j], 1, Len(dates), prev.rng))

RECURSIVE GenRooms(_, _)
GenRooms(j, x) ==
    IF j = 0 THEN [data |-> <<>>, rng |-> x]
    ELSE GenRoomAfter(j, GenRooms(j - 1, x))

\* The body of generate_data: the table and the state np.random is left in.
GenerateBody(x) == GenRooms(Min(Len(rooms), Len(floors)), x)

(* ------------------------ table helpers (pandas) ----------------------- *)
\* Mutant: the end date is excluded.
FilterByDate_mut(df, sd, ed) ==
    SelectSeq(df, LAMBDA r : DateOf(r.timestamp) >= sd /\ DateOf(r.timestamp) < ed)

\* df[(df['timestamp'].dt.date >= start) & (df['timestamp'].dt.date <= end)]
FilterByDate(df, sd, ed) ==
    SelectSeq(df, LAMBDA r : DateOf(r.timestamp) >= sd /\ DateOf(r.timestamp) <= ed)

\* df[df[col] == value]
FilterEq(df, col, value) == SelectSeq(df, LAMBDA r : r[col] = value)

\* df[col].sum() over rows lo..hi; the sum of no row is 0
RECURSIVE SumRange(_, _, _, _)
SumRange(df, col, lo, hi) ==
    IF lo > hi THEN Zero
    ELSE IF lo = hi THEN df[lo][col]
    ELSE RAdd(SumRange(df, col, lo, (lo + hi) \div 2),
              SumRange(df, col, ((lo + hi) \div 2) + 1, hi))

SumCol(df, col) == SumRange(df, col, 1, Len(df))

\* df[col].mean() of a non-empty table
MeanCol(df, col) == RDivInt(SumCol(df, col), Len(df))

\* df[col].unique(): the distinct values, in order of first appearance
FirstOccurrences(df, col) ==
    SelectSeq([i \in 1..Len(df) |-> i],
              LAMBDA i : ~\E j \in 1..(i - 1) : df[j][col] = df[i][col])
ValuesAt(df, col, first) == [k \in 1..Len(first) |-> df[first[k]][col]]
UniqueCol(df, col) == ValuesAt(df, col, FirstOccurrences(df, col))

\* Python compares room and floor identifiers as strings; all of them are
\* digit strings of one length, which order as their numbers do.
StrKey(s) ==
    CASE s = "1" -> 1 [] s = "2" -> 2 [] s = "3" -> 3
      [] s = "101" -> 101 [] s = "102" -> 102 [] s = "103" -> 103
      [] s = "201" -> 201 [] s = "202" -> 202 [] s = "203" -> 203
      [] s = "301" -> 301 [] s = "302" -> 302 [] s = "303" -> 303

\* sorted(values) for a set of identifiers
MinStr(S) == CHOOSE x \in S : \A y \in S : StrKey(x) <= StrKey(y)
RECURSIVE SortedStr(_)
SortedFrom(m, S) == <<m>> \o SortedStr(S \ {m})
SortedStr(S) == IF S = {} THEN <<>> ELSE SortedFrom(MinStr(S), S)

\* the ascending order of a set of timestamps
MinInt(S) == CHOOSE x \in S : \A y \in S : x <= y
MaxInt(S) == CHOOSE x \in S : \A y \in S : x >= y
Between(lo, hi, S) ==
    SelectSeq([i \in 1..(hi - lo + 1) |-> lo + (i - 1)], LAMBDA t : t \in S)
SortedInt(S) == IF S = {} THEN <<>> ELSE Between(MinInt(S), MaxInt(S), S)

ColValues(df, col) == {df[i][col] : i \in 1..Len(df)}

\* One row of the room summary: the aggregates of one group.
RoomSummaryRow(room, g) ==
    [room_id |-> room,
     power |-> MeanCol(g, "power"),
     status |-> g[Len(g)].status,
     energy_kwh |-> SumCol(g, "energy_kwh"),
     bill_taka |-> SumCol(g, "bill_taka"),
     carbon_gco2 |-> SumCol(g, "carbon_gco2")]

GroupRows(df, keys) ==
    [k \in 1..Len(keys) |-> RoomSummaryRow(keys[k], FilterEq(df, "room_id", keys[k]))]

\* groupby('room_id').agg(power mean, status last, energy/bill/carbon sum).reset_index()
RoomSummaries(df) == GroupRows(df, SortedStr(ColValues(df, "room_id")))

TrendRows(df, keys) ==
    [k \in 1..Len(keys) |->
        [timestamp |-> keys[k],
         power |-> SumCol(FilterEq(df, "timestamp", keys[k]), "power")]]

\* groupby('timestamp')['power'].sum().reset_index()
PowerTrend(df) == TrendRows(df, SortedInt(ColValues(df, "timestamp")))

\* st.metric(label, f"{value:.2f}")
Metric(label, value) == [label |-> label, value |-> Fmt2(value)]

(* -------------------------- device registry ---------------------------- *)
\* f'device_{room}'
DeviceName(room) ==
    CASE room = "101" -> "device_101" [] room = "102" -> "device_102"
      [] room = "103" -> "device_103" [] room = "201" -> "device_201"
      [] room = "202" -> "device_202" [] room = "203" -> "device_203"
      [] room = "301" -> "device_301" [] room = "302" -> "device_302"
      [] room = "303" -> "device_303"

\* A dict is the sequence of its items in insertion order.
Keys(d) == [i \in 1..Len(d) |-> d[i].room]
HasKey(d, k) == \E i \in 1..Len(d) : d[i].room = k
\* Mutant: the pair is appended even when the key is already there.
DictSet_mut(d, k, v) == Append(d, [room |-> k, device |-> v])

\* d[k] = v
DictSet(d, k, v) ==
    IF HasKey(d, k)
    THEN [i \in 1..Len(d) |-> IF d[i].room = k THEN [room |-> k, device |-> v] ELSE d[i]]
    ELSE Append(d, [room |-> k, device |-> v])
\* del d[k], for a key that is present
DictDel(d, k) == SelectSeq(d, LAMBDA e : e.room # k)

\* {room: f'device_{room}' for room in data_df['room_id'].unique()}
DevicesOf(u) == [i \in 1..Len(u) |-> [room |-> u[i], device |-> DeviceName(u[i])]]
InitialDevices(df) == DevicesOf(UniqueCol(df, "room_id"))

\* st.selectbox(label, options): the kept value while it is still offered,
\* otherwise the first option, and None when there is nothing to offer.
Selectbox(options, value) ==
    IF \E i \in 1..Len(options) : options[i] = value THEN value
    ELSE IF Len(options) = 0 THEN None
    ELSE options[1]


VARIABLES
    rng,             \* state of np.random
    cache,           \* the st.cache_data entry of generate_data
    has_devices,     \* 'devices' in st.session_state
    devices,         \* st.session_state.devices
    ss_selected_room,\* st.session_state.selected_room (None while unset)
    ss_view_mode,    \* st.session_state.view_mode (None while unset)
    view_mode,       \* widget "Select View"
    start_date,      \* widget "Start Date"
    end_date,        \* widget "End Date"
    selected_floor,  \* widget "Select Floor" (None while not rendered)
    selected_room,   \* widget "Select Room" (None while not rendered)
    data_df,         \* the table the last run read
    filtered_df,     \* the range-filtered table of the last run
    page,            \* what the last run rendered
    request          \* the button and form inputs that triggered the last run

vars == <<rng, cache, has_devices, devices, ss_selected_room, ss_view_mode, view_mode,
          start_date, end_date, selected_floor, selected_room, data_df, filtered_df, page,
          request>>

\* @st.cache_data: a hit returns the stored table and runs nothing.
\* Mutant: no cache; every run generates the table afresh.
generate_data_mut == [df |-> GenerateBody(rng).data, rng |-> GenerateBody(rng).rng,
                      cache |-> [hit |-> TRUE, value |-> GenerateBody(rng).data]]

CacheStore(g) == [df |-> g.data, rng |-> g.rng, cache |-> [hit |-> TRUE, value |-> g.data]]

generate_data ==
    IF cache.hit THEN [df |-> cache.value, rng |-> rng, cache |-> cache]
    ELSE CacheStore(GenerateBody(rng))

(* ------------------------------ the views ------------------------------ *)
Views == <<"Building Overview", "Floor Summary", "Room Details", "Device Management">>

\* The button pressed in a run (None when a widget change triggered it), the
\* text inputs of the add/update form and the option picked next to the button.
NoClick == [button |-> None, new_room |-> "", new_device |-> "", pick |-> 0]
Click(button, pick) == [button |-> button, new_room |-> "", new_device |-> "", pick |-> pick]

BlankPage == [metrics |-> <<>>, tiles |-> <<>>, trend |-> <<>>, latest |-> <<>>,
              status_line |-> None, devices_df |-> <<>>, delete_room |-> None,
              messages |-> <<>>,
              exception |-> None, footer |-> TRUE]

\* What a view hands back to the run: the page and the session state it leaves.
ViewResult(pg, floor, room, devs, ssr, ssv) ==
    [page |-> pg, selected_floor |-> floor, selected_room |-> room, devices |-> devs,
     ss_selected_room |-> ssr, ss_view_mode |-> ssv]

\* View 1: the building totals and one tile per room of the filtered table;
\* a tile's button stores the room and "Room Details" in the session state.
OverviewPage(fdf, devs, room_summaries, pressed, pick) ==
    ViewResult(
      [BlankPage EXCEPT
         !.metrics = <<Metric("Total Energy (kWh)", SumCol(fdf, "energy_kwh")),
                       Metric("Total Bill (Taka)", SumCol(fdf, "bill_taka")),
                       Metric("Total Carbon (gCO2)", SumCol(fdf, "carbon_gco2"))>>,
         !.tiles = room_summaries],
      None, None, devs,
      IF pressed THEN room_summaries[pick].room_id ELSE ss_selected_room,
      IF pressed THEN "Room Details" ELSE ss_view_mode)

OverviewTiles(fdf, devs, click, room_summaries) ==
    OverviewPage(fdf, devs, room_summaries,
                 click.button = "View Details" /\ click.pick \in 1..Len(room_summaries),
                 click.pick)

\* Mutant: the tiles are grouped from the full table of the previous run.
OverviewView_mut(fdf, devs, click) == OverviewTiles(fdf, devs, click, RoomSummaries(data_df))

OverviewView(fdf, devs, click) == OverviewTiles(fdf, devs, click, RoomSummaries(fdf))

\* View 2: the totals and the power trend of the selected floor.
FloorPage(floor_df, devs, selected) ==
    ViewResult(
      [BlankPage EXCEPT
         !.metrics = <<Metric("Floor Energy (kWh)", SumCol(floor_df, "energy_kwh")),
                       Metric("Floor Bill (Taka)", SumCol(floor_df, "bill_taka")),
                       Metric("Floor Carbon (gCO2)", SumCol(floor_df, "carbon_gco2"))>>,
         !.trend = PowerTrend(floor_df)],
      selected, None, devs, ss_selected_room, ss_view_mode)

FloorOf(fdf, devs, selected) == FloorPage(FilterEq(fdf, "floor", selected), devs, selected)

FloorView(fdf, devs, floorW) ==
    FloorOf(fdf, devs, Selectbox(SortedStr(ColValues(fdf, "floor")), floorW))

\* The message of the manual-control or schedule button pressed, if any.
ControlMessages(click) ==
    CASE click.button = "Turn On AC" -> <<"AC Turned On (Simulated)">>
      [] click.button = "Turn Off AC" -> <<"AC Turned Off (Simulated)">>
      [] click.button = "Apply Schedule" -> <<"Schedule applied">>
      [] OTHER -> <<>>

\* The body of "if not room_df.empty": latest values, totals, graphs, controls.
RoomPanel(room_df, latest, click) ==
    [BlankPage EXCEPT
       !.latest = <<latest>>,
       !.metrics = <<Metric("Voltage", latest.voltage),
                     Metric("Current", latest.current),
                     Metric("Power", latest.power),
                     Metric("Energy (kWh)", SumCol(room_df, "energy_kwh")),
                     Metric("Bill (Taka)", SumCol(room_df, "bill_taka")),
                     Metric("Carbon (gCO2)", SumCol(room_df, "carbon_gco2"))>>,
       !.trend = [i \in 1..Len(room_df) |->
                     [timestamp |-> room_df[i].timestamp, power |-> room_df[i].power]],
       !.messages = ControlMessages(click),
       !.status_line = latest.status]

\* View 3: the selected room, rendered only when it has rows in the filtered table.
RoomPage(room_df, devs, selected, click) ==
    ViewResult(
      IF Len(room_df) # 0 THEN RoomPanel(room_df, room_df[Len(room_df)], click)
      ELSE BlankPage,
      None, selected, devs, ss_selected_room, ss_view_mode)

RoomOf(fdf, devs, selected, click) ==
    RoomPage(FilterEq(fdf, "room_id", selected), devs, selected, click)

RoomView(fdf, devs, roomW, click) ==
    RoomOf(fdf, devs, Selectbox(SortedStr(ColValues(fdf, "room_id")), roomW), click)

\* Mutant: one non-empty input is enough.
AddDevice_mut(devs, new_room, new_device) ==
    IF new_room # "" \/ new_device # ""
    THEN [devices |-> DictSet(devs, new_room, new_device), messages |-> <<"Added/Updated">>]
    ELSE [devices |-> devs, messages |-> <<>>]

\* "Add/Update Device": stores the pair when both inputs are non-empty.
AddDevice(devs, new_room, new_device) ==
    IF new_room # "" /\ new_device # ""
    THEN [devices |-> DictSet(devs, new_room, new_device), messages |-> <<"Added/Updated">>]
    ELSE [devices |-> devs, messages |-> <<>>]

\* Mutant: devices.pop(delete_room, None), which ignores an absent key.
DeleteDevice_mut(devs, delete_room) ==
    [devices |-> DictDel(devs, delete_room), messages |-> <<"Deleted">>, exception |-> None]

\* "Delete Device": del devices[delete_room]; an absent key raises KeyError.
\* Nothing in the script catches it: the run ends there, and Streamlit shows
\* the exception on the page and keeps the session.
DeleteDevice(devs, delete_room) ==
    IF HasKey(devs, delete_room)
    THEN [devices |-> DictDel(devs, delete_room), messages |-> <<"Deleted">>,
          exception |-> None]
    ELSE [devices |-> devs, messages |-> <<>>, exception |-> "KeyError"]

\* The value of the "Select Room to Delete" selector: the picked option.
DeleteSelection(options, pick) ==
    IF pick \in 1..Len(options) THEN options[pick] ELSE Selectbox(options, None)

DevicePage(devs, added, delete_room, deleted) ==
    ViewResult(
      [BlankPage EXCEPT
         !.devices_df = devs,
         !.delete_room = delete_room,
         !.messages = added.messages \o deleted.messages,
         !.exception = deleted.exception,
         !.footer = (deleted.exception = None)],
      None, None, deleted.devices, ss_selected_room, ss_view_mode)

DeleteButton(devs, click, added, delete_room) ==
    DevicePage(devs, added, delete_room,
               IF click.button = "Delete Device"
               THEN DeleteDevice(added.devices, delete_room)
               ELSE [devices |-> added.devices, messages |-> <<>>, exception |-> None])

DeleteForm(devs, click, added) ==
    DeleteButton(devs, click, added, DeleteSelection(Keys(added.devices), click.pick))

\* View 4: the registry table, then the add/update form, then the delete form.
DeviceView(devs, click) ==
    DeleteForm(devs, click,
               IF click.button = "Add/Update Device"
               THEN AddDevice(devs, click.new_room, click.new_device)
               ELSE [devices |-> devs, messages |-> <<>>])

(* --------------------------- one script run ---------------------------- *)
\* The end of a run: what it leaves in the session, the widgets and the page.
Finish(g, vm, sd, ed, fdf, click, out) ==
    /\ rng' = g.rng
    /\ request' = click
    /\ cache' = g.cache
    /\ data_df' = g.df
    /\ has_devices' = TRUE
    /\ devices' = out.devices
    /\ ss_selected_room' = out.ss_selected_room
    /\ ss_view_mode' = out.ss_view_mode
    /\ view_mode' = vm
    /\ start_date' = sd
    /\ end_date' = ed
    /\ filtered_df' = fdf
    /\ selected_floor' = out.selected_floor
    /\ selected_room' = out.selected_room
    /\ page' = out.page

\* The branch on view_mode.
Render(g, devs, vm, sd, ed, floorW, roomW, click, fdf) ==
    Finish(g, vm, sd, ed, fdf, click,
           CASE vm = "Building Overview" -> OverviewView(fdf, devs, click)
             [] vm = "Floor Summary" -> FloorView(fdf, devs, floorW)
             [] vm = "Room Details" -> RoomView(fdf, devs, roomW, click)
             [] vm = "Device Management" -> DeviceView(devs, click))

\* After data_df = generate_data(): the registry is created on the first run
\* of the session, and the table is filtered by the date inputs.
AfterLoad(g, vm, sd, ed, floorW, roomW, click) ==
    Render(g, IF has_devices THEN devices ELSE InitialDevices(g.df),
           vm, sd, ed, floorW, roomW, click, FilterByDate(g.df, sd, ed))

RunScript(vm, sd, ed, floorW, roomW, click) ==
    AfterLoad(generate_data, vm, sd, ed, floorW, roomW, click)

(* ----------------------------- user inputs ----------------------------- *)
Seeds == 1..NumSeeds
DefaultStartDate == 1
DefaultEndDate == NumDays
\* every date from the day before the window to the day after it
DateInputs == 0..(NumDays + 1)
DefaultDates == {DefaultStartDate, DefaultEndDate}
NewRoomInputs == {"", "201"}
NewDeviceInputs == {"", "dev_201"}
AllViews == {Views[i] : i \in 1..Len(Views)}

Init ==
    /\ rng \in Seeds
    /\ cache = [hit |-> FALSE, value |-> <<>>]
    /\ has_devices = FALSE
    /\ devices = <<>>
    /\ ss_selected_room = None
    /\ ss_view_mode = None
    /\ view_mode = Views[1]
    /\ start_date = DefaultStartDate
    /\ end_date = DefaultEndDate
    /\ selected_floor = None
    /\ selected_room = None
    /\ data_df = <<>>
    /\ filtered_df = <<>>
    /\ page = [BlankPage EXCEPT !.footer = FALSE]
    /\ request = NoClick

\* The options of a selector the user picks among: its first MaxPick ones.
FirstOptions(options) == {options[i] : i \in 1..Min(MaxPick, Len(options))}

\* The first run of the script in the session.
Load ==
    /\ ~has_devices
    /\ RunScript(view_mode, start_date, end_date, None, None, NoClick)

\* A run with the widgets as they are and the given button pressed.
Press(click) ==
    RunScript(view_mode, start_date, end_date, selected_floor, selected_room, click)

SelectView(targets) ==
    /\ has_devices
    /\ \E v \in targets :
          /\ v # view_mode
          /\ RunScript(v, start_date, end_date, None, None, NoClick)

SetStartDate(inputs) ==
    /\ has_devices
    /\ \E d \in inputs :
          /\ d # start_date
          /\ RunScript(view_mode, d, end_date, selected_floor, selected_room, NoClick)

SetEndDate(inputs) ==
    /\ has_devices
    /\ \E d \in inputs :
          /\ d # end_date
          /\ RunScript(view_mode, start_date, d, selected_floor, selected_room, NoClick)

\* "Refresh Dashboard": st.rerun() restarts the script with the same widget values.
Refresh ==
    /\ has_devices
    /\ Press(NoClick)

SelectFloor ==
    /\ has_devices
    /\ view_mode = "Floor Summary"
    /\ \E f \in FirstOptions(SortedStr(ColValues(filtered_df, "floor"))) :
          /\ f # selected_floor
          /\ RunScript(view_mode, start_date, end_date, f, None, NoClick)

SelectRoom ==
    /\ has_devices
    /\ view_mode = "Room Details"
    /\ \E r \in FirstOptions(SortedStr(ColValues(filtered_df, "room_id"))) :
          /\ r # selected_room
          /\ RunScript(view_mode, start_date, end_date, None, r, NoClick)

\* "View Details for <room>" on one of the first tiles.
ClickViewDetails ==
    /\ has_devices
    /\ view_mode = "Building Overview"
    /\ \E i \in 1..Min(MaxPick, Len(page.tiles)) : Press(Click("View Details", i))

\* "Turn On AC", "Turn Off AC" or "Apply Schedule"; rendered with the room's data.
ClickControl ==
    /\ has_devices
    /\ view_mode = "Room Details"
    /\ page.latest # <<>>
    /\ \E b \in {"Turn On AC", "Turn Off AC", "Apply Schedule"} : Press(Click(b, 0))

ClickAddUpdate(roomInputs, deviceInputs) ==
    /\ has_devices
    /\ view_mode = "Device Management"
    /\ \E r \in roomInputs, d \in deviceInputs :
          Press([button |-> "Add/Update Device", new_room |-> r, new_device |-> d,
                 pick |-> 0])

\* "Delete Device" with one of the first maxPick keys selected; with no key to
\* offer the selector holds None.
ClickDelete(maxPick) ==
    /\ has_devices
    /\ view_mode = "Device Management"
    /\ \E i \in 0..Min(maxPick, Len(devices)) :
          /\ (i = 0) = (Len(devices) = 0)
          /\ Press(Click("Delete Device", i))

\* The whole session: views, date inputs switched between the two default
\* dates, refresh, and the device forms with the delete selector left on its
\* first key.
Next ==
    \/ Load
    \/ SelectView(AllViews)
    \/ SetStartDate(DefaultDates)
    \/ SetEndDate(DefaultDates)
    \/ Refresh
    \/ ClickAddUpdate({"201"}, {"dev_201"})
    \/ ClickDelete(1)

Spec == Init /\ [][Next]_vars

\* The data views, over every date range.
NextData ==
    \/ Load
    \/ SelectView(AllViews)
    \/ SetStartDate(DateInputs)
    \/ SetEndDate(DateInputs)
    \/ Refresh
    \/ SelectFloor
    \/ SelectRoom

SpecData == Init /\ [][NextData]_vars

\* The device registry, under the default date range.
NextDevices ==
    \/ Load
    \/ SelectView({"Device Management"})
    \/ Refresh
    \/ ClickAddUpdate(NewRoomInputs, NewDeviceInputs)
    \/ ClickDelete(MaxPick)

\* The registry does not depend on the values drawn: one stream is enough.
InitDevices == Init /\ rng = 1

SpecDevices == InitDevices /\ [][NextDevices]_vars

\* The buttons of the overview tiles and of the room controls.
NextControls ==
    \/ Load
    \/ SelectView({"Building Overview", "Room Details"})
    \/ SetEndDate(DateInputs)
    \/ SelectRoom
    \/ ClickViewDetails
    \/ ClickControl

SpecControls == Init /\ [][NextControls]_vars

(* ============================== the claims ============================= *)
Rows(df) == {df[i] : i \in 1..Len(df)}
OutsideHours(r) == HourOf(r.timestamp) < 8 \/ HourOf(r.timestamp) >= 20

\* C1: in every Reading of the generated table, current is 0 exactly when the
\* status is "off", and that exactly when the hour is outside [8, 20); so an
\* hour in [8, 20) gives "on" and a non-zero current.
C1_CurrentStatusHour ==
    \A i \in 1..Len(data_df) :
        /\ (data_df[i].current.n = 0) <=> OutsideHours(data_df[i])
        /\ (data_df[i].status = "off") <=> OutsideHours(data_df[i])
        /\ (data_df[i].status = "on") <=> ~OutsideHours(data_df[i])

\* The table holds a Reading at 08:xx and one at 20:xx, the two edges of the rule.
C1_Witness ==
    /\ \E i \in 1..Len(data_df) : HourOf(data_df[i].timestamp) = 8
    /\ \E i \in 1..Len(data_df) : HourOf(data_df[i].timestamp) = 20

\* The floor statically paired with a room: three rooms on each of three floors.
PairedFloor(room) ==
    CASE room \in {"101", "102", "103"} -> "1"
      [] room \in {"201", "202", "203"} -> "2"
      [] room \in {"301", "302", "303"} -> "3"

\* C2: the generated table has exactly one Reading per (room, minute) of the 9
\* rooms and the minutes StartTs..EndTs, both ends included, and no other; so it
\* has 9 * ((end - start) in minutes + 1) rows, no pair twice, and each
\* Reading carries the floor paired with its room.
C2_CrossProduct ==
    cache.hit =>
        /\ Len(data_df) = 9 * ((EndTs - StartTs) + 1)
        /\ {<<data_df[i].room_id, data_df[i].timestamp>> : i \in 1..Len(data_df)}
             = {"101", "102", "103", "201", "202", "203", "301", "302", "303"}
                 \X (StartTs..(NumDays * 24 * MinutesPerHour - 1))
        /\ \A i \in 1..Len(data_df) : data_df[i].floor = PairedFloor(data_df[i].room_id)

\* The table has been generated and holds the first and the last minute of the window.
C2_Witness ==
    /\ cache.hit
    /\ \E i \in 1..Len(data_df) : data_df[i].timestamp = 0
    /\ \E i \in 1..Len(data_df) :
          data_df[i].timestamp = NumDays * 24 * MinutesPerHour - 1

\* C3: in every Reading power = voltage * current, energy_kwh = power/1000/60,
\* bill_taka = energy_kwh * 5 and carbon_gco2 = energy_kwh * 500 = 100 * bill_taka
\* (in exact arithmetic, which the script's floats follow up to rounding); and a
\* Reading outside [8, 20) has power, energy, bill and carbon 0.
C3_DerivedFields ==
    \A i \in 1..Len(data_df) :
        LET r == data_df[i] IN
        /\ REq(r.power, Rat(r.voltage.n * r.current.n, r.voltage.d * r.current.d))
        /\ REq(r.energy_kwh, Rat(r.power.n, r.power.d * 60000))
        /\ REq(r.bill_taka, Rat(r.energy_kwh.n * 5, r.energy_kwh.d))
        /\ REq(r.carbon_gco2, Rat(r.energy_kwh.n * 500, r.energy_kwh.d))
        /\ REq(r.carbon_gco2, Rat(r.bill_taka.n * 100, r.bill_taka.d))
        /\ OutsideHours(r) =>
              /\ r.power.n = 0
              /\ r.energy_kwh.n = 0
              /\ r.bill_taka.n = 0
              /\ r.carbon_gco2.n = 0

\* The table holds a Reading with a non-zero energy and one outside the hours.
C3_Witness ==
    /\ \E i \in 1..Len(data_df) : data_df[i].energy_kwh.n > 0
    /\ \E i \in 1..Len(data_df) : OutsideHours(data_df[i]) /\ data_df[i].voltage.n > 0

InRange(r) == start_date <= DateOf(r.timestamp) /\ DateOf(r.timestamp) <= end_date

\* C4: the filtered table of a run holds exactly the Readings of the full table
\* whose date d has start_date <= d <= end_date, each once and unaltered; a
\* range covering the window gives the full table, and the building totals
\* shown are then those of the full table.
C4_DateFilter ==
    has_devices =>
        /\ Rows(filtered_df) = {r \in Rows(data_df) : InRange(r)}
        /\ Len(filtered_df) = Cardinality({r \in Rows(data_df) : InRange(r)})
        /\ (start_date <= 1 /\ end_date >= NumDays) =>
              /\ filtered_df = data_df
              /\ view_mode = "Building Overview" =>
                    /\ page.metrics[1].value = Fmt2(SumCol(data_df, "energy_kwh"))
                    /\ page.metrics[2].value = Fmt2(SumCol(data_df, "bill_taka"))
                    /\ page.metrics[3].value = Fmt2(SumCol(data_df, "carbon_gco2"))

\* A range of one day inside the window: some Readings are kept, some dropped,
\* among them Readings of the last minute of the kept day.
C4_Witness ==
    /\ has_devices
    /\ start_date = end_date
    /\ 0 < Len(filtered_df)
    /\ Len(filtered_df) < Len(data_df)
    /\ \E i \in 1..Len(filtered_df) : HourOf(filtered_df[i].timestamp) = 23

RoomMinutes(df) == {<<df[i].room_id, df[i].timestamp>> : i \in 1..Len(df)}

\* C10: whatever the date range, the last Reading of every room in a non-empty
\* filtered table is outside operating hours (a Reading in operating hours is
\* always followed by the next minute's Reading of its room); so every room tile
\* shows status "off", and the latest values of Room Details are status "off",
\* current 0 and power 0.
C10_LastIsOff ==
    /\ \A i \in 1..Len(filtered_df) :
          filtered_df[i].status = "on" =>
             <<filtered_df[i].room_id, filtered_df[i].timestamp + 1>>
                \in RoomMinutes(filtered_df)
    /\ \A k \in 1..Len(page.tiles) : page.tiles[k].status = "off"
    /\ \A k \in 1..Len(page.latest) :
          /\ page.latest[k].status = "off"
          /\ page.latest[k].current.n = 0
          /\ page.latest[k].power.n = 0
          /\ page.status_line = "off"
          /\ page.metrics[2].value = 0
          /\ page.metrics[3].value = 0

\* Room Details shows the latest values of a room over a range ending inside the window.
C10_Witness ==
    /\ view_mode = "Room Details"
    /\ page.latest # <<>>
    /\ end_date < NumDays
    /\ page.metrics[4].value > 0

DataViews == {"Building Overview", "Floor Summary", "Room Details"}

\* The range can match no Reading: it lies outside the window or is inverted.
NoMatch == start_date > end_date \/ end_date < 1 \/ start_date > NumDays

\* The page shows an energy, a bill and a carbon summary, its last three
\* metrics, and all three are 0.
SummariesZero ==
    /\ Len(page.metrics) >= 3
    /\ \A k \in (Len(page.metrics) - 2)..Len(page.metrics) : page.metrics[k].value = 0

\* C5 as stated: with a range that matches no Reading the filtered table is
\* empty and every data view completes without an error, showing energy, bill
\* and carbon summaries of 0, no tile and an empty trend.
C5_Original ==
    (has_devices /\ NoMatch) =>
        /\ Len(filtered_df) = 0
        /\ view_mode \in DataViews =>
              /\ page.exception = None
              /\ page.footer
              /\ SummariesZero
              /\ page.tiles = <<>>
              /\ page.trend = <<>>

\* C5, amended: with a range that matches no Reading the filtered table is
\* empty and every data view completes without an error, with no tile and an
\* empty trend; Building Overview and Floor Summary show energy, bill and
\* carbon summaries of 0, and Room Details renders no summary, latest value or
\* status at all.
C5_EmptyRange ==
    (has_devices /\ NoMatch) =>
        /\ Len(filtered_df) = 0
        /\ view_mode \in DataViews =>
              /\ page.exception = None
              /\ page.footer
              /\ page.tiles = <<>>
              /\ page.trend = <<>>
        /\ view_mode \in {"Building Overview", "Floor Summary"} => SummariesZero
        /\ view_mode = "Floor Summary" => selected_floor = None
        /\ view_mode = "Room Details" =>
              /\ selected_room = None
              /\ page.metrics = <<>>
              /\ page.latest = <<>>
              /\ page.status_line = None

\* Room Details under an inverted range that lies inside the window.
C5_Witness ==
    /\ has_devices
    /\ view_mode = "Room Details"
    /\ start_date > end_date
    /\ start_date <= NumDays
    /\ end_date >= 1
    /\ Len(filtered_df) = 0

(* ----------------------------- the registry ---------------------------- *)
\* The devices a registry holds for a key: none, or one.
Lookup(d, k) == {d[i].device : i \in {j \in 1..Len(d) : d[j].room = k}}
KeySet(d) == {d[i].room : i \in 1..Len(d)}
Entries(d, k) == {i \in 1..Len(d) : d[i].room = k}
\* Every key but k has the same entry in both registries.
SameBut(d, e, k) == \A q \in (KeySet(d) \cup KeySet(e)) \ {k} : Lookup(d, q) = Lookup(e, q)

InitialRegistry ==
    <<[room |-> "101", device |-> "device_101"], [room |-> "102", device |-> "device_102"],
      [room |-> "103", device |-> "device_103"], [room |-> "201", device |-> "device_201"],
      [room |-> "202", device |-> "device_202"], [room |-> "203", device |-> "device_203"],
      [room |-> "301", device |-> "device_301"], [room |-> "302", device |-> "device_302"],
      [room |-> "303", device |-> "device_303"]>>

C6_Step ==
    /\ ~has_devices => devices' = InitialRegistry
    /\ (request'.button = "Add/Update Device"
          /\ request'.new_room # "" /\ request'.new_device # "") =>
          /\ Cardinality(Entries(devices', request'.new_room)) = 1
          /\ Lookup(devices', request'.new_room) = {request'.new_device}
          /\ SameBut(devices, devices', request'.new_room)
    /\ (request'.button = "Delete Device" /\ HasKey(devices, page'.delete_room)) =>
          /\ ~HasKey(devices', page'.delete_room)
          /\ SameBut(devices, devices', page'.delete_room)
    /\ (has_devices /\ view_mode' = "Device Management") => page'.devices_df = devices

\* C6: the registry starts as room -> "device_<room>" for the 9 rooms; an
\* insert-or-update with non-empty room r and device d leaves r mapped to
\* exactly d and every other entry as it was; a delete of a present key removes
\* exactly that key; and the table of every later run enumerates the registry
\* as those operations left it.
C6_RegistryRoundTrip == [][C6_Step]_vars

\* "201" was deleted and inserted again with "dev_201", "101" is deleted, and
\* the table shown enumerates exactly that registry.
C6_Witness ==
    /\ view_mode = "Device Management"
    /\ devices # <<>>
    /\ devices[Len(devices)] = [room |-> "201", device |-> "dev_201"]
    /\ ~HasKey(devices, "101")
    /\ HasKey(devices, "202")
    /\ page.devices_df = devices

\* The session takes further interactions: what the actions of the device
\* view require of the session is in place.
Interactive ==
    /\ has_devices
    /\ cache.hit
    /\ view_mode = "Device Management"

C7_Step ==
    /\ (has_devices /\ request'.button = "Delete Device"
          /\ ~HasKey(devices, page'.delete_room)) =>
           /\ page'.exception = "KeyError"
           /\ page'.messages = <<>>
           /\ devices' = devices
           /\ has_devices'
    /\ page.exception # None =>
           /\ Interactive
           /\ request'.button # "Delete Device" => (page'.exception = None /\ page'.footer)

\* C7: a delete request for a key that is not in the registry fails with a
\* not-found condition (KeyError) shown on the page, leaves the registry as it
\* was, and does not end the session: further interactions stay possible and
\* their runs complete normally.  The case arises when every entry has been
\* deleted and the selector holds None.
C7_DeleteAbsent == [][C7_Step]_vars

\* Delete was pressed on the emptied registry.
C7_Witness ==
    /\ request.button = "Delete Device"
    /\ devices = <<>>
    /\ page.delete_room = None
    /\ page.exception = "KeyError"
    /\ Interactive

EmptyAdd(r) == r.button = "Add/Update Device" /\ (r.new_room = "" \/ r.new_device = "")

\* C8 as stated: an insert-or-update with an empty room or device is rejected
\* with an error shown to the user, and the registry is left as it was.
C8_Original ==
    [][(has_devices /\ EmptyAdd(request')) =>
          /\ devices' = devices
          /\ (page'.messages # <<>> \/ page'.exception # None)]_vars

\* C8, amended: an insert-or-update with an empty room or device is ignored
\* silently: the registry is left exactly as it was and the run completes with
\* no message at all, neither an error nor the success message.
C8_EmptyAddIgnored ==
    [][(has_devices /\ EmptyAdd(request')) =>
          /\ devices' = devices
          /\ page'.messages = <<>>
          /\ page'.exception = None
          /\ page'.footer]_vars

\* Add/Update was pressed with a device but no room.
C8_Witness ==
    /\ has_devices
    /\ request.button = "Add/Update Device"
    /\ request.new_room = ""
    /\ request.new_device = "dev_201"
    /\ page.messages = <<>>

\* C9: the table is generated once; every later run, whatever the interaction,
\* reads that same table row for row, leaves it in the cache untouched and
\* draws nothing more from np.random.
C9_DatasetFrozen ==
    [][/\ data_df' = cache'.value
       /\ cache.hit =>
             /\ data_df' = data_df
             /\ cache' = cache
             /\ rng' = rng]_vars

\* The view, the date range and the registry have all been changed.
C9_Witness ==
    /\ cache.hit
    /\ Len(data_df) > 0
    /\ view_mode = "Floor Summary"
    /\ start_date # DefaultStartDate
    /\ ~HasKey(devices, "101")
    /\ \E i \in 1..Len(devices) : devices[i].device = "dev_201"

====
